---- MODULE Spec2Model ----
(***************************************************************************)
(* Verification model of the wormhole-explorer blockchain-watcher         *)
(* ingestion pipeline.                                                    *)
(*                                                                         *)
(*  Part 1  MoonbeamEvmJsonRPCBlockRepository.getBlockHeight              *)
(*          (finality polling with linear backoff)          SpecMoonbeam  *)
(*  Part 2  divideIntoBatches (filter batching)             SpecDivide    *)
(*  Part 3  the Poller tick / watermark commit loop         SpecPoller    *)
(*  Part 4  aptosLogMessagePublishedMapper                  SpecAptos     *)
(*  Part 5  StaticJobRepository.getSource / getHandlers     SpecJobs      *)
(*  Part 6  HandleEvmTransactions, evmTransactionFoundMapper SpecEvmTx    *)
(*  Part 7  ProcessSourceTx (tx-tracker consumer)           SpecSourceTx  *)
(*  Part 8  Processor.Process (parser)                      SpecParser    *)
(*  Part 9  Repository.matchOperationByTxHash (api)         SpecMatch     *)
(***************************************************************************)
EXTENDS Integers, Sequences, FiniteSets, TLC

VARIABLES
    \* ---- Part 1: getBlockHeight ----
    pc,               \* position inside getBlockHeight
    chainHeight,      \* height the generic height query would answer now
    blockNumber,      \* const blockNumber (line 26); NoBlock before the fetch
    isBlockFinalized, \* let isBlockFinalized (line 21)
    sleepTime,        \* let sleepTime (line 22)
    attempts,         \* let attempts (line 23)
    heightFetches,    \* number of super.getBlockHeight calls made
    sleeps,           \* sequence of the intervals passed to this.sleep
    predCalls,        \* number of moon_isBlockFinalized posts issued
    answers,          \* number of moon_isBlockFinalized posts that answered
    rpcErrors,        \* number of attempts that ended in the catch block
    firstTrueCall,    \* index of the first post that answered true; 0 if none
    finalizedHashes,  \* hashes for which the predicate answered true
    returned,         \* value the promise resolved with; NoBlock if none
    thrownBlock,      \* block number named by the thrown Error; NoBlock if none
    \* ---- Part 2: divideIntoBatches ----
    divPc,            \* "ready" before the call, "done" after it
    divSet,           \* the argument set, in iteration (insertion) order
    divBatchSize,     \* the argument batchSize
    divBatches,       \* the returned array of batches
    \* ---- Part 3: Poller ----
    watermark,        \* Watermark Store: job id -> last processed position
    height,           \* per job: chain height at the configured commitment
    ticks,            \* per job: the tick executions currently in flight
    lastDue,          \* what the most recent timer expiry (of any job) did
    lastFailed,       \* per job: range of a failed tick, until the next tick starts
    lastCommit,       \* per job: the most recently committed range
    \* ---- Part 4: aptosLogMessagePublishedMapper ----
    aptPc,            \* "ready" before the call, "done" after it
    aptTx,            \* the argument transaction
    aptResult,        \* what the call produced: an event or a thrown error
    \* ---- Part 5: StaticJobRepository ----
    jrPc,             \* "ready", "sourced", "wired" or "failed"
    dryRun,           \* private dryRun (constructor argument)
    jobDef,           \* the JobDefinition being wired
    jrSource,         \* what getSource produced
    jrHandlers,       \* what getHandlers produced
    delivered,        \* (handler index, target) pairs that received events
    \* ---- Part 6: HandleEvmTransactions with evmTransactionFoundMapper ----
    evPc,             \* "ready" or "done"
    evTxs,            \* the raw transactions handed to handle
    evResult,         \* the events handle returned
    \* ---- Part 7: ProcessSourceTx (tx-tracker) ----
    stPc,             \* "loop", "check", "fetch", "sleeping", "upsert", "done"
    params,           \* ProcessSourceTxParams
    processedBefore,  \* whether the store already holds the VAA
    stAttempts,       \* loop variable attempts
    txStatus,         \* local txStatus ("" is the zero value)
    txDetail,         \* local txDetail ("nil" or the fetched detail)
    stReturn,         \* value returned by ProcessSourceTx ("none" while running)
    stCheck,          \* outcome of the last AlreadyProcessed call
    checkCalls,       \* calls of repository.AlreadyProcessed
    fetchCalls,       \* calls of chains.FetchTx
    notFoundCalls,    \* calls of chains.FetchTx answered ErrTransactionNotFound
    lastFetch,        \* (detail, err) returned by the last chains.FetchTx call
    slept,            \* total time slept
    upserts,          \* documents passed to repository.UpsertDocument
    \* ---- Part 8: Processor.Process (parser) ----
    ppPc,             \* "start", "parse", "upsert" or "done"
    vaaBytes,         \* the message: well-formed or not, and what it decodes to
    parseOutcome,     \* what p.parser.Parse returned ("none" before the call)
    upsertOutcome,    \* what UpsertParsedVaa returned ("none" if not called)
    ppReturn,         \* (update, err) returned by Process
    parsedUpserts,    \* ParsedVaaUpdate values passed to UpsertParsedVaa
    alerts,           \* alert keys passed to p.alert.CreateAndSend
    metricCalls,      \* metrics counters incremented, in order
    \* ---- Part 9: Repository.matchOperationByTxHash (api) ----
    mtPc,             \* "ready" or "built"
    txHash,           \* the requested hash, a sequence of characters
    matchStage        \* the $or alternatives of the $match stage built

mbVars == <<pc, chainHeight, blockNumber, isBlockFinalized, sleepTime, attempts,
            heightFetches, sleeps, predCalls, answers, rpcErrors, firstTrueCall,
            finalizedHashes, returned, thrownBlock>>
divVars == <<divPc, divSet, divBatchSize, divBatches>>
pollVars == <<watermark, height, ticks, lastDue, lastFailed, lastCommit>>
aptVars == <<aptPc, aptTx, aptResult>>
jrVars == <<jrPc, dryRun, jobDef, jrSource, jrHandlers, delivered>>
evVars == <<evPc, evTxs, evResult>>
stVars == <<stPc, params, processedBefore, stAttempts, txStatus, txDetail,
            stReturn, stCheck, checkCalls, fetchCalls, notFoundCalls,
            lastFetch, slept, upserts>>
ppVars == <<ppPc, vaaBytes, parseOutcome, upsertOutcome, ppReturn,
            parsedUpserts, alerts, metricCalls>>
mtVars == <<mtPc, txHash, matchStage>>
vars == <<mbVars, divVars, pollVars, aptVars, jrVars, evVars, stVars, ppVars,
          mtVars>>

Min(a, b) == IF a <= b THEN a ELSE b

(***************************************************************************)
(* Part 1.  MoonbeamEvmJsonRPCBlockRepository.getBlockHeight               *)
(***************************************************************************)
GROW_SLEEP_TIME == 350
MAX_ATTEMPTS == 10
INITIAL_SLEEP_TIME == 100

\* Largest height the chain reaches while one invocation is observed.
MaxChainHeight == 3

NoBlock == 0 - 1

\* Answers of the moon_isBlockFinalized call: the JSON field `result` is
\* true, false or missing.
Answers == {"true", "false", "null"}

\* super.getBlock(chain, blockNumber).hash : one hash per block.
HashOf(n) == 1000 + n

\* `result ?? false` (line 45)
CoalesceMissingAsTrue(r) == r # "false"
Coalesce(r) == r = "true"

\* `sleepTime = sleepTime += GROW_SLEEP_TIME` (lines 46 and 50)
NextSleepDoubling(s) == s * 2
NextSleep(s) == s + GROW_SLEEP_TIME

\* `while (!isBlockFinalized && attempts <= MAX_ATTEMPTS)` (line 28)
LoopGuardOneMore == ~isBlockFinalized /\ attempts <= MAX_ATTEMPTS + 1
LoopGuard == ~isBlockFinalized /\ attempts <= MAX_ATTEMPTS

\* `return blockNumber` (line 60)
ReturnValueRefetched == chainHeight
ReturnValue == blockNumber

MbInit ==
    /\ pc = "start"
    /\ chainHeight \in 1..MaxChainHeight
    /\ blockNumber = NoBlock
    /\ isBlockFinalized = FALSE
    /\ sleepTime = INITIAL_SLEEP_TIME
    /\ attempts = 0
    /\ heightFetches = 0
    /\ sleeps = <<>>
    /\ predCalls = 0
    /\ answers = 0
    /\ rpcErrors = 0
    /\ firstTrueCall = 0
    /\ finalizedHashes = {}
    /\ returned = NoBlock
    /\ thrownBlock = NoBlock

\* The chain keeps producing blocks while getBlockHeight polls.
ChainAdvance ==
    /\ chainHeight < MaxChainHeight
    /\ chainHeight' = chainHeight + 1
    /\ UNCHANGED <<pc, blockNumber, isBlockFinalized, sleepTime, attempts,
                   heightFetches, sleeps, predCalls, answers, rpcErrors,
                   firstTrueCall, finalizedHashes, returned, thrownBlock>>

\* line 26: `const blockNumber = await super.getBlockHeight(chain, finality)`
FetchHeight ==
    /\ pc = "start"
    /\ blockNumber' = chainHeight
    /\ heightFetches' = heightFetches + 1
    /\ pc' = "loop"
    /\ UNCHANGED <<chainHeight, isBlockFinalized, sleepTime, attempts, sleeps,
                   predCalls, answers, rpcErrors, firstTrueCall,
                   finalizedHashes, returned, thrownBlock>>

\* line 26 rejects: the rejection propagates, it is outside the try block.
FetchHeightFails ==
    /\ pc = "start"
    /\ heightFetches' = heightFetches + 1
    /\ pc' = "rejected"
    /\ UNCHANGED <<chainHeight, blockNumber, isBlockFinalized, sleepTime,
                   attempts, sleeps, predCalls, answers, rpcErrors,
                   firstTrueCall, finalizedHashes, returned, thrownBlock>>

\* lines 29-47: one pass through the try block that reaches its end.
AttemptAnswered ==
    /\ pc = "loop"
    /\ LoopGuard
    /\ \E r \in Answers :
          /\ isBlockFinalized' = Coalesce(r)
          /\ finalizedHashes' = IF r = "true"
                                  THEN finalizedHashes \cup {HashOf(blockNumber)}
                                  ELSE finalizedHashes
          /\ firstTrueCall' = IF r = "true" /\ firstTrueCall = 0
                                 THEN predCalls + 1
                                 ELSE firstTrueCall
    /\ sleeps' = Append(sleeps, sleepTime)
    /\ predCalls' = predCalls + 1
    /\ answers' = answers + 1
    /\ sleepTime' = NextSleep(sleepTime)
    /\ attempts' = attempts + 1
    /\ UNCHANGED <<pc, chainHeight, blockNumber, heightFetches, rpcErrors,
                   returned, thrownBlock>>

\* lines 30-32, 48-52: super.getBlock throws; the predicate is not called.
AttemptGetBlockFailsAborting ==
    /\ pc = "loop"
    /\ LoopGuard
    /\ sleeps' = Append(sleeps, sleepTime)
    /\ rpcErrors' = rpcErrors + 1
    /\ pc' = "rejected"
    /\ UNCHANGED <<chainHeight, blockNumber, isBlockFinalized, heightFetches,
                   predCalls, answers, firstTrueCall, finalizedHashes,
                   returned, thrownBlock, sleepTime, attempts>>
AttemptGetBlockFails ==
    /\ pc = "loop"
    /\ LoopGuard
    /\ sleeps' = Append(sleeps, sleepTime)
    /\ rpcErrors' = rpcErrors + 1
    /\ sleepTime' = NextSleep(sleepTime)
    /\ attempts' = attempts + 1
    /\ UNCHANGED <<pc, chainHeight, blockNumber, isBlockFinalized,
                   heightFetches, predCalls, answers, firstTrueCall,
                   finalizedHashes, returned, thrownBlock>>

\* lines 30-43, 48-52: the moon_isBlockFinalized post throws.
AttemptPostFails ==
    /\ pc = "loop"
    /\ LoopGuard
    /\ sleeps' = Append(sleeps, sleepTime)
    /\ predCalls' = predCalls + 1
    /\ rpcErrors' = rpcErrors + 1
    /\ sleepTime' = NextSleep(sleepTime)
    /\ attempts' = attempts + 1
    /\ UNCHANGED <<pc, chainHeight, blockNumber, isBlockFinalized,
                   heightFetches, answers, firstTrueCall, finalizedHashes,
                   returned, thrownBlock>>

\* lines 55-60: the loop is left; throw or return.
ExitLoop ==
    /\ pc = "loop"
    /\ ~LoopGuard
    /\ IF attempts > MAX_ATTEMPTS
         THEN /\ pc' = "threw"
              /\ thrownBlock' = blockNumber
              /\ UNCHANGED returned
         ELSE /\ pc' = "returned"
              /\ returned' = ReturnValue
              /\ UNCHANGED thrownBlock
    /\ UNCHANGED <<chainHeight, blockNumber, isBlockFinalized, sleepTime,
                   attempts, heightFetches, sleeps, predCalls, answers,
                   rpcErrors, firstTrueCall, finalizedHashes>>

MbNext ==
    \/ ChainAdvance
    \/ FetchHeight
    \/ FetchHeightFails
    \/ AttemptAnswered
    \/ AttemptGetBlockFails
    \/ AttemptPostFails
    \/ ExitLoop

(***************************************************************************)
(* Part 2.  divideIntoBatches                                              *)
(***************************************************************************)
\* Items a filter set may hold, and the largest batchSize tried.
MaxItems == 4
MaxBatchSize == 3

\* `batchSize = 10` default argument
DEFAULT_BATCH_SIZE == 10

Items == 1..MaxItems

\* A JavaScript Set iterates in insertion order and holds no duplicates.
IsSet(s) == \A i, j \in DOMAIN s : i # j => s[i] # s[j]
SetsUpTo(n) == UNION {{s \in [1..k -> Items] : IsSet(s)} : k \in 0..n}

\* The forEach callback (lines 271-277) applied from item i on.
RECURSIVE ForEachFromNoReset(_, _, _, _, _)
ForEachFromNoReset(set, i, batch, batches, batchSize) ==
    IF i > Len(set)
      THEN [batch |-> batch, batches |-> batches]
      ELSE LET pushed == Append(batch, set[i])
           IN  IF Len(pushed) = batchSize
                 THEN ForEachFromNoReset(set, i + 1, pushed, Append(batches, pushed), batchSize)
                 ELSE ForEachFromNoReset(set, i + 1, pushed, batches, batchSize)
RECURSIVE ForEachFrom(_, _, _, _, _)
ForEachFrom(set, i, batch, batches, batchSize) ==
    IF i > Len(set)
      THEN [batch |-> batch, batches |-> batches]
      ELSE LET pushed == Append(batch, set[i])
           IN  IF Len(pushed) = batchSize
                 THEN ForEachFrom(set, i + 1, <<>>, Append(batches, pushed), batchSize)
                 ELSE ForEachFrom(set, i + 1, pushed, batches, batchSize)

\* The trailing flush (lines 279-281).
FlushAlways(r) == Append(r.batches, r.batch)
Flush(r) == IF Len(r.batch) > 0 THEN Append(r.batches, r.batch) ELSE r.batches

divideIntoBatches(set, batchSize) ==
    Flush(ForEachFrom(set, 1, <<>>, <<>>, batchSize))

DivInit ==
    /\ divPc = "ready"
    /\ divSet \in SetsUpTo(MaxItems)
    /\ divBatchSize \in 1..MaxBatchSize
    /\ divBatches = <<>>

DivideCall ==
    /\ divPc = "ready"
    /\ divBatches' = divideIntoBatches(divSet, divBatchSize)
    /\ divPc' = "done"
    /\ UNCHANGED <<divSet, divBatchSize>>

DivNext == DivideCall

(***************************************************************************)
(* Part 3.  Poller: one timer-driven fetch / map / deliver / commit loop   *)
(* per job.                                                                *)
(***************************************************************************)
Jobs == {"j1", "j2"}

\* Largest chain position observed.
MaxHeight == 3

\* JobDefinition: per-job batch size and ordered handler list.
batchSize == [j \in Jobs |-> IF j = "j1" THEN 3 ELSE 1]
numHandlers == [j \in Jobs |-> IF j = "j1" THEN 2 ELSE 1]

\* Handler/Delivery: events are sent to the Target in groups of this size.
DeliveryBatchSize == 1

\* Retry/Backoff policy: attempt budget of one range fetch.
MaxFetchAttempts == 2

NoRange == [from |-> 0, to |-> 0 - 1]
NoDue == "none"

NumBatches(events) == (events + DeliveryBatchSize - 1) \div DeliveryBatchSize

\* from = watermark.position + 1
RangeFromRewind(position) == position
RangeFrom(position) == position + 1

\* to = min(from + batchSize - 1, adapter.GetCurrentHeight(commitment))
RangeToBatchOnly(from, size, current) == from + size - 1
RangeTo(from, size, current) == Min(from + size - 1, current)

\* Single-flight per job identifier: a tick may start only when idle.
CanStartOverlapping(j) == Len(ticks[j]) < 2
CanStart(j) == Len(ticks[j]) = 0

\* Removal of the i-th in-flight tick of a job.
RemoveAt(s, i) == [k \in 1..(Len(s) - 1) |-> IF k < i THEN s[k] ELSE s[k + 1]]

PollInit ==
    /\ watermark = [j \in Jobs |-> 0]
    /\ height = watermark
    /\ ticks = [j \in Jobs |-> <<>>]
    /\ lastDue = NoDue
    /\ lastFailed = [j \in Jobs |-> NoRange]
    /\ lastCommit = [j \in Jobs |-> NoRange]

\* The chain of a job produces a block.
HeightAdvance(j) ==
    /\ height[j] < MaxHeight
    /\ height' = [height EXCEPT ![j] = @ + 1]
    /\ UNCHANGED <<watermark, ticks, lastDue, lastFailed, lastCommit>>

\* Timer expiry while the previous tick of the job still runs: skipped.
TickSkipped(j) ==
    /\ ~CanStart(j)
    /\ lastDue' = "skipped"
    /\ UNCHANGED <<watermark, height, ticks, lastFailed, lastCommit>>

\* Timer expiry, idle job, from > to: no new data, remain IDLE.
TickNoData(j) ==
    /\ CanStart(j)
    /\ LET from == RangeFrom(watermark[j])
           to == RangeTo(from, batchSize[j], height[j])
       IN  from > to
    /\ lastDue' = "nodata"
    /\ UNCHANGED <<watermark, height, ticks, lastFailed, lastCommit>>

\* Timer expiry, idle job, from <= to: IDLE -> FETCHING.
TickStart(j) ==
    /\ CanStart(j)
    /\ LET from == RangeFrom(watermark[j])
           to == RangeTo(from, batchSize[j], height[j])
       IN  /\ from <= to
           /\ ticks' = [ticks EXCEPT ![j] =
                  Append(@, [state |-> "FETCHING", readWm |-> watermark[j],
                             from |-> from, to |-> to, fetchAttempts |-> 1,
                             events |-> 0, handler |-> 1, batch |-> 1])]
    /\ lastDue' = IF lastFailed[j] = NoRange THEN "started" ELSE "retried"
    /\ lastFailed' = [lastFailed EXCEPT ![j] = NoRange]
    /\ UNCHANGED <<watermark, height, lastCommit>>

\* A tick ends in FAILED: nothing is committed.
FailTick(j, i) ==
    /\ lastFailed' = [lastFailed EXCEPT ![j] =
                         [from |-> ticks[j][i].from, to |-> ticks[j][i].to]]
    /\ ticks' = [ticks EXCEPT ![j] = RemoveAt(@, i)]
    /\ UNCHANGED <<watermark, height, lastDue, lastCommit>>

\* FETCHING: a transient fetch failure within the attempt budget is retried.
FetchRetry(j, i) ==
    /\ ticks[j][i].state = "FETCHING"
    /\ ticks[j][i].fetchAttempts < MaxFetchAttempts
    /\ ticks' = [ticks EXCEPT ![j][i].fetchAttempts = @ + 1]
    /\ UNCHANGED <<watermark, height, lastDue, lastFailed, lastCommit>>

\* FETCHING: the attempt budget is exhausted.
FetchExhausted(j, i) ==
    /\ ticks[j][i].state = "FETCHING"
    /\ ticks[j][i].fetchAttempts = MaxFetchAttempts
    /\ FailTick(j, i)

\* FETCHING -> MAPPING
FetchOk(j, i) ==
    /\ ticks[j][i].state = "FETCHING"
    /\ ticks' = [ticks EXCEPT ![j][i].state = "MAPPING"]
    /\ UNCHANGED <<watermark, height, lastDue, lastFailed, lastCommit>>

\* MAPPING -> DELIVERING: each record of the range maps to zero or one event.
MapRecords(j, i) ==
    /\ ticks[j][i].state = "MAPPING"
    /\ \E n \in 0..(ticks[j][i].to - ticks[j][i].from + 1) :
          ticks' = [ticks EXCEPT ![j][i].state = "DELIVERING",
                                 ![j][i].events = n,
                                 ![j][i].handler = 1,
                                 ![j][i].batch = 1]
    /\ UNCHANGED <<watermark, height, lastDue, lastFailed, lastCommit>>

\* DELIVERING: the current handler delivers its next batch to the Target.
DeliverBatchOk(j, i) ==
    /\ ticks[j][i].state = "DELIVERING"
    /\ ticks[j][i].batch <= NumBatches(ticks[j][i].events)
    /\ ticks' = [ticks EXCEPT ![j][i].batch = @ + 1]
    /\ UNCHANGED <<watermark, height, lastDue, lastFailed, lastCommit>>

\* DELIVERING: a delivery fails; the handler reports one aggregate error.
DeliverBatchFails(j, i) ==
    /\ ticks[j][i].state = "DELIVERING"
    /\ ticks[j][i].batch <= NumBatches(ticks[j][i].events)
    /\ FailTick(j, i)

\* State of a tick whose handler just returned success.
AfterHandlerCommitEarly(t, n) == [t EXCEPT !.state = "COMMITTING"]
AfterHandler(t, n) ==
    IF t.handler = n
      THEN [t EXCEPT !.state = "COMMITTING"]
      ELSE [t EXCEPT !.handler = @ + 1, !.batch = 1]

\* DELIVERING: the current handler delivered every batch and returns success;
\* the next handler in declared order follows, after the last one COMMITTING.
HandlerDone(j, i) ==
    /\ ticks[j][i].state = "DELIVERING"
    /\ ticks[j][i].batch > NumBatches(ticks[j][i].events)
    /\ ticks' = [ticks EXCEPT ![j][i] = AfterHandler(@, numHandlers[j])]
    /\ UNCHANGED <<watermark, height, lastDue, lastFailed, lastCommit>>

\* COMMITTING -> IDLE: compare-and-swap on the watermark read at tick start.
Commit(j, i) ==
    /\ ticks[j][i].state = "COMMITTING"
    /\ IF watermark[j] = ticks[j][i].readWm
         THEN /\ watermark' = [watermark EXCEPT ![j] = ticks[j][i].to]
              /\ lastCommit' = [lastCommit EXCEPT ![j] =
                     [from |-> ticks[j][i].from, to |-> ticks[j][i].to]]
         ELSE UNCHANGED <<watermark, lastCommit>>
    /\ ticks' = [ticks EXCEPT ![j] = RemoveAt(@, i)]
    /\ UNCHANGED <<height, lastDue, lastFailed>>

PollNext ==
    \E j \in Jobs :
        \/ HeightAdvance(j)
        \/ TickSkipped(j)
        \/ TickNoData(j)
        \/ TickStart(j)
        \/ \E i \in DOMAIN ticks[j] :
              \/ FetchRetry(j, i)
              \/ FetchExhausted(j, i)
              \/ FetchOk(j, i)
              \/ MapRecords(j, i)
              \/ DeliverBatchOk(j, i)
              \/ DeliverBatchFails(j, i)
              \/ HandlerDone(j, i)
              \/ Commit(j, i)

(***************************************************************************)
(* Part 4.  aptosLogMessagePublishedMapper                                 *)
(* Strings that the mapper takes apart are sequences: an event type or a  *)
(* function name is the sequence of its "::"-separated segments, a sender  *)
(* or a number is the sequence of its characters.                          *)
(***************************************************************************)
\* const REDEEM_EVENT_TAIL = "::state::WormholeMessage": the segments that
\* follow its leading "::".
REDEEM_EVENT_TAIL == <<"state", "WormholeMessage">>
CHAIN_ID_APTOS == 22
\* padStart(64, "0")
SENDER_LENGTH == 64

\* Longest sender enumerated character by character.
MaxSenderLen == 2

Repeat(c, n) == [i \in 1..n |-> c]

\* tx.type.includes(REDEEM_EVENT_TAIL): the tail occurs after some segment.
TypeIncludesTail(type) ==
    \E k \in 1..(Len(type) - Len(REDEEM_EVENT_TAIL)) :
        SubSeq(type, k + 1, k + Len(REDEEM_EVENT_TAIL)) = REDEEM_EVENT_TAIL

\* Array.prototype.find: index of the first element that satisfies the
\* predicate, 0 when there is none (find returns undefined).
FindWormholeEvent(events) ==
    IF \E i \in DOMAIN events : TypeIncludesTail(events[i].type)
      THEN CHOOSE i \in DOMAIN events :
               /\ TypeIncludesTail(events[i].type)
               /\ \A k \in 1..(i - 1) : ~TypeIncludesTail(events[k].type)
      ELSE 0

\* String.prototype.padStart(targetLength, padString) for a one-character
\* padString.
PadEnd(str, targetLength, c) ==
    IF Len(str) >= targetLength THEN str
    ELSE str \o Repeat(c, targetLength - Len(str))
PadStart(str, targetLength, c) ==
    IF Len(str) >= targetLength THEN str
    ELSE Repeat(c, targetLength - Len(str)) \o str

\* Number(str) for a string of decimal digits.
DigitValue(c) ==
    CASE c = "0" -> 0 [] c = "1" -> 1 [] c = "2" -> 2 [] c = "3" -> 3
      [] c = "4" -> 4 [] c = "5" -> 5 [] c = "6" -> 6 [] c = "7" -> 7
      [] c = "8" -> 8 [] c = "9" -> 9
RECURSIVE NumberOf(_)
NumberOf(str) ==
    IF str = <<>> THEN 0
    ELSE 10 * NumberOf(SubSeq(str, 1, Len(str) - 1)) + DigitValue(str[Len(str)])

\* lines 298-325.  Reading `.data` of the undefined that find returned
\* throws a TypeError (line 302).
aptosLogMessagePublishedMapper(transaction) ==
    LET found == FindWormholeEvent(transaction.events)
    IN  IF found = 0
          THEN [kind |-> "TypeError"]
          ELSE LET wormholeData == transaction.events[found].data
                   address == transaction.payload.function[1]
                   sender == PadStart(wormholeData.sender, SENDER_LENGTH, "0")
               IN  [kind |-> "event",
                    name |-> "log-message-published",
                    address |-> address,
                    chainId |-> CHAIN_ID_APTOS,
                    txHash |-> transaction.hash,
                    blockHeight |-> transaction.blockHeight,
                    blockTime |-> wormholeData.timestamp,
                    attributes |->
                        [sender |-> sender,
                         sequence |-> NumberOf(wormholeData.sequence),
                         payload |-> wormholeData.payload,
                         nonce |-> NumberOf(wormholeData.nonce),
                         consistencyLevel |-> wormholeData.consistencyLevel]]

\* Inputs.
SenderChars == {"0", "a"}
ShortSenders == UNION {[1..n -> SenderChars] : n \in 0..MaxSenderLen}
LongSenders == {Repeat("a", SENDER_LENGTH - 1), Repeat("a", SENDER_LENGTH),
                Repeat("a", SENDER_LENGTH + 1)}
Senders == ShortSenders \cup LongSenders

EventTypes == {<<"0x5bc", "state", "WormholeMessage">>,
               <<"0x1", "coin", "DepositEvent">>,
               <<"state", "WormholeMessage">>}

AptosEvents ==
    {[type |-> t,
      data |-> [sender |-> sn, sequence |-> sq, timestamp |-> 1700,
                payload |-> "0x01", nonce |-> <<"0">>, consistencyLevel |-> 0]] :
        t \in EventTypes, sn \in Senders, sq \in {<<"7">>, <<"4", "2">>}}

AptosTransactions ==
    {[events |-> ev,
      payload |-> [function |-> <<"0x5bc", "wormhole", "publish_message">>],
      hash |-> h,
      blockHeight |-> bh] :
        ev \in UNION {[1..n -> AptosEvents] : n \in 0..2},
        h \in {"0xaa", "0xbb"},
        bh \in {153, 154}}

AptInit ==
    /\ aptPc = "ready"
    /\ aptTx \in AptosTransactions
    /\ aptResult = [kind |-> "none"]

AptosMap ==
    /\ aptPc = "ready"
    /\ aptResult' = aptosLogMessagePublishedMapper(aptTx)
    /\ aptPc' = "done"
    /\ UNCHANGED aptTx

AptNext == AptosMap

(***************************************************************************)
(* Part 5.  StaticJobRepository: wiring a JobDefinition.                   *)
(***************************************************************************)
\* Longest handler list of a job definition.
MaxHandlers == 2

\* The registries filled by fill() (lines 133-252).
SourceNames == {"PollEvm", "PollSolanaTransactions", "PollSuiTransactions",
                "PollAptos"}
MapperNames == {"evmLogMessagePublishedMapper",
                "evmRedeemedTransactionFoundMapper",
                "solanaLogMessagePublishedMapper",
                "solanaTransferRedeemedMapper",
                "suiLogMessagePublishedMapper",
                "suiRedeemedTransactionFoundMapper",
                "aptosLogMessagePublishedMapper",
                "aptosRedeemedTransactionFoundMapper"}
TargetNames == {"sns", "dummy"}
EvmHandlerNames == {"HandleEvmLogs", "HandleEvmTransactions"}
OtherHandlerNames == {"HandleSolanaTransactions", "HandleSuiTransactions",
                      "HandleAptosTransactions"}
HandlerNames == EvmHandlerNames \cup OtherHandlerNames

\* `this.dryRun ? "dummy" : target` (lines 200, 210, 255)
TargetKeyIgnoringDryRun(dry, target) == target
TargetKey(dry, target) == IF dry THEN "dummy" ELSE target

\* getSource (lines 99-106)
getSource(def) ==
    IF def.source.action \notin SourceNames
      THEN [kind |-> "throw", error |-> "Source not found"]
      ELSE [kind |-> "source", action |-> def.source.action, id |-> def.id]

\* { ...handler.config, commitment, chainId, chain, id } (lines 120-126):
\* the keys named last win.
MergeConfig(config, def) ==
    LET job == [commitment |-> def.source.config.commitment,
                chainId |-> def.chainId,
                chain |-> def.chain,
                id |-> def.id]
    IN  [k \in DOMAIN config \cup DOMAIN job |->
            IF k \in DOMAIN job THEN job[k] ELSE config[k]]

\* The handler factories (lines 196-245) and getTarget (lines 254-261).
\* The two EVM factories call `this.targets.get(...)!()`, a TypeError when
\* the lookup finds nothing; the other three go through getTarget.
BuildHandler(dry, action, config, target, mapper) ==
    LET key == TargetKey(dry, target)
    IN  IF key \notin TargetNames
          THEN [kind |-> "throw",
                error |-> IF action \in EvmHandlerNames
                            THEN "TypeError" ELSE "Target not found"]
          ELSE [kind |-> "handler", action |-> action, config |-> config,
                mapper |-> mapper, passedTarget |-> target, target |-> key]

\* result.push(...) (line 127)
UnshiftHandler(result, h) == <<h>> \o result
PushHandler(result, h) == Append(result, h)

\* getHandlers (lines 108-131): the loop from entry i on.
RECURSIVE GetHandlersFrom(_, _, _, _)
GetHandlersFrom(dry, def, i, result) ==
    IF i > Len(def.handlers)
      THEN [kind |-> "handlers", handlers |-> result]
      ELSE LET handler == def.handlers[i]
           IN  IF handler.action \notin HandlerNames
                 THEN [kind |-> "throw", error |-> "Handler not found"]
               ELSE IF handler.mapper \notin MapperNames
                 THEN [kind |-> "throw", error |-> "Handler not found"]
               ELSE LET built == BuildHandler(dry, handler.action,
                                              MergeConfig(handler.config, def),
                                              handler.target, handler.mapper)
                    IN  IF built.kind = "throw"
                          THEN built
                          ELSE GetHandlersFrom(dry, def, i + 1,
                                               PushHandler(result, built))

getHandlers(dry, def) == GetHandlersFrom(dry, def, 1, <<>>)

\* Inputs.
HandlerEntries ==
    {[action |-> a, mapper |-> mc[1], target |-> t, config |-> mc[2]] :
        a \in HandlerNames \cup {"HandleNothing"},
        mc \in {<<"evmLogMessagePublishedMapper", [metricName |-> "m1"]>>,
                <<"aptosLogMessagePublishedMapper",
                  [metricName |-> "m2", chain |-> "overridden"]>>,
                <<"noSuchMapper", [metricName |-> "m1"]>>},
        t \in {"sns", "kafka"}}

JobDefinitions ==
    {[id |-> "job-1", chain |-> "ethereum", chainId |-> 2,
      source |-> [action |-> sa, config |-> [commitment |-> "finalized"]],
      handlers |-> hs] :
        sa \in {"PollEvm", "PollAptos", "PollNothing"},
        hs \in UNION {[1..n -> HandlerEntries] : n \in 0..MaxHandlers}}

JrInit ==
    /\ jrPc = "ready"
    /\ dryRun \in BOOLEAN
    /\ jobDef \in JobDefinitions
    /\ jrSource = [kind |-> "none"]
    /\ jrHandlers = [kind |-> "none"]
    /\ delivered = {}

\* getSource(jobDef)
GetSourceCall ==
    /\ jrPc = "ready"
    /\ jrSource' = getSource(jobDef)
    /\ jrPc' = IF jrSource'.kind = "throw" THEN "failed" ELSE "sourced"
    /\ UNCHANGED <<dryRun, jobDef, jrHandlers, delivered>>

\* getHandlers(jobDef)
GetHandlersCall ==
    /\ jrPc = "sourced"
    /\ jrHandlers' = getHandlers(dryRun, jobDef)
    /\ jrPc' = IF jrHandlers'.kind = "throw" THEN "failed" ELSE "wired"
    /\ UNCHANGED <<dryRun, jobDef, jrSource, delivered>>

\* A built handler is handed events: it delivers to the target function it
\* was constructed with.
HandleCall(i) ==
    /\ jrPc = "wired"
    /\ i \in DOMAIN jrHandlers.handlers
    /\ delivered' = delivered \cup
           {[handler |-> i, target |-> jrHandlers.handlers[i].target]}
    /\ UNCHANGED <<jrPc, dryRun, jobDef, jrSource, jrHandlers>>

JrNext ==
    \/ GetSourceCall
    \/ GetHandlersCall
    \/ \E i \in 1..MaxHandlers : HandleCall(i)

(***************************************************************************)
(* Part 6.  HandleEvmTransactions.handle with evmTransactionFoundMapper.   *)
(* Neither is in the sources at hand; both follow the specification        *)
(* (sections 3, 4.3, 4.4 and example scenario B) and the inputs of         *)
(* evmTransactionFoundMapper.test.ts.                                      *)
(***************************************************************************)
\* Longest batch of transactions handed to one handle call.
MaxTxs == 2

FilterAddress == "0xf890982f9310df57d00f659cf4fd87e65aded8d7"
OtherAddress == "0x3ee18b2214aff97000d974cf647e7c347e8fa585"
SenderAddress == "0xfb070adcd21361a3946a0584dc84a7b89faa68e3"
CompleteTransferSelector == "0xc6878519"
UnknownSelector == "0x00000000"
EvmCfg == [filter |-> [addresses |-> {FilterAddress}]]

\* The known methods: selector -> human name and event name.
KnownMethods ==
    [s \in {CompleteTransferSelector} |->
        [method |-> "MethodCompleteTransfer", name |-> "transfer-redeemed"]]

\* The selector is the head of the input, the call data follows.
SelectorOf(input) == input[1]

MatchesFilterBySender(tx, cfg) == tx.from \in cfg.filter.addresses
MatchesFilter(tx, cfg) == tx.to \in cfg.filter.addresses

evmTransactionFoundMapper(tx) ==
    LET sel == SelectorOf(tx.input)
        known == sel \in DOMAIN KnownMethods
    IN  [name |-> "evm-transaction-found",
         chainId |-> tx.chainId,
         txHash |-> tx.hash,
         blockHeight |-> tx.blockNumber,
         attributes |->
            [blockNumber |-> tx.blockNumber,
             from |-> tx.from,
             to |-> tx.to,
             methodsByAddress |-> IF known THEN KnownMethods[sel].method
                                           ELSE "unknown",
             name |-> IF known THEN KnownMethods[sel].name ELSE "unknown"]]

\* handle: the transactions that pass the address filter, mapped in order.
\* What becomes of a transaction with an unknown selector is left open by
\* the specification: keepUnknown chooses between an event and none.
RECURSIVE HandleFrom(_, _, _, _)
HandleFrom(txs, cfg, keepUnknown, i) ==
    IF i > Len(txs) THEN <<>>
    ELSE LET tx == txs[i]
             keep == /\ MatchesFilter(tx, cfg)
                     /\ (keepUnknown \/ SelectorOf(tx.input) \in DOMAIN KnownMethods)
         IN  (IF keep THEN <<evmTransactionFoundMapper(tx)>> ELSE <<>>)
                \o HandleFrom(txs, cfg, keepUnknown, i + 1)

EvmTransactions ==
    [hash : {"0x612a", "0x7b3c"},
     blockNumber : {18793148, 18793149},
     chainId : {1, 2},
     from : {SenderAddress},
     to : {FilterAddress, OtherAddress},
     input : {<<CompleteTransferSelector, "0001">>, <<UnknownSelector, "0001">>}]

EvInit ==
    /\ evPc = "ready"
    /\ evTxs \in UNION {[1..n -> EvmTransactions] : n \in 0..MaxTxs}
    /\ evResult = <<>>

HandleEvmCall ==
    /\ evPc = "ready"
    /\ \E keepUnknown \in BOOLEAN :
           evResult' = HandleFrom(evTxs, EvmCfg, keepUnknown, 1)
    /\ evPc' = "done"
    /\ UNCHANGED evTxs

(***************************************************************************)
(* Part 7.  ProcessSourceTx (tx-tracker/consumer/processor.go).            *)
(***************************************************************************)
maxAttempts == 1
\* retryDelay = 5 * time.Minute, in seconds
retryDelay == 300

SourceTxParams ==
    [ChainId : {2, 99}, VaaId : {"2/e1/7", "99/e2/8"}, TxHash : {"0xabc"},
     Overwrite : BOOLEAN]

\* `if !params.Overwrite` (line 54)
CheckNeededAlways(p) == TRUE
CheckNeeded(p) == ~p.Overwrite

\* What chains.FetchTx can return: the detail with a nil error, or no detail
\* with an error.
TxDetails == {"detailA", "detailB"}
FetchResult(d, e) == [detail |-> d, err |-> e]

\* txStatus assigned in the switch (lines 74, 98, 103)
StatusForAlwaysConfirmed(err) == "confirmed"
StatusFor(err) == IF err = "nil" THEN "confirmed" ELSE "internalError"

\* `return err` of lines 86 and 90 ends the call
PcAfterAbortUpsert == "upsert"
PcAfterAbort == "done"

\* `attempts <= maxAttempts` (line 52)
InLoop(n) == n <= maxAttempts

StInit ==
    /\ stPc = "loop"
    /\ params \in SourceTxParams
    /\ processedBefore \in BOOLEAN
    /\ stAttempts = 1
    /\ txStatus = ""
    /\ txDetail = "nil"
    /\ stReturn = "none"
    /\ stCheck = "none"
    /\ checkCalls = 0
    /\ fetchCalls = 0
    /\ notFoundCalls = 0
    /\ lastFetch = FetchResult("nil", "none")
    /\ slept = 0
    /\ upserts = <<>>

\* The loop condition, and the Overwrite test at the top of the body.
LoopHead ==
    /\ stPc = "loop"
    /\ stPc' = IF ~InLoop(stAttempts) THEN "upsert"
               ELSE IF CheckNeeded(params) THEN "check" ELSE "fetch"
    /\ UNCHANGED <<params, processedBefore, stAttempts, txStatus, txDetail,
                   stReturn, stCheck, checkCalls, fetchCalls, notFoundCalls,
                   lastFetch,
                   slept, upserts>>

\* repository.AlreadyProcessed fails: return err (lines 61-63)
AlreadyProcessedFails ==
    /\ stPc = "check"
    /\ checkCalls' = checkCalls + 1
    /\ stCheck' = "error"
    /\ stReturn' = "ErrAlreadyProcessedCheck"
    /\ stPc' = "done"
    /\ UNCHANGED <<params, processedBefore, stAttempts, txStatus, txDetail,
                   fetchCalls, notFoundCalls,
                   lastFetch, slept, upserts>>

\* repository.AlreadyProcessed answers: return ErrAlreadyProcessed when
\* processed (lines 64-66), go on to the fetch otherwise.
AlreadyProcessedAnswers ==
    /\ stPc = "check"
    /\ checkCalls' = checkCalls + 1
    /\ stCheck' = IF processedBefore THEN "processed" ELSE "fresh"
    /\ stReturn' = IF processedBefore THEN "ErrAlreadyProcessed" ELSE stReturn
    /\ stPc' = IF processedBefore THEN "done" ELSE "fetch"
    /\ UNCHANGED <<params, processedBefore, stAttempts, txStatus, txDetail,
                   fetchCalls, notFoundCalls,
                   lastFetch, slept, upserts>>

\* chains.FetchTx returns ErrTransactionNotFound (lines 73-80)
FetchTxNotFound ==
    /\ stPc = "fetch"
    /\ fetchCalls' = fetchCalls + 1
    /\ notFoundCalls' = notFoundCalls + 1
    /\ lastFetch' = FetchResult("nil", "ErrTransactionNotFound")
    /\ txDetail' = lastFetch'.detail
    /\ txStatus' = StatusFor(lastFetch'.err)
    /\ stPc' = "sleeping"
    /\ UNCHANGED <<params, processedBefore, stAttempts, stReturn, stCheck,
                   checkCalls, slept, upserts>>

\* time.Sleep(retryDelay); continue (lines 81-82)
SleepAndContinue ==
    /\ stPc = "sleeping"
    /\ slept' = slept + retryDelay
    /\ stAttempts' = stAttempts + 1
    /\ stPc' = "loop"
    /\ UNCHANGED <<params, processedBefore, txStatus, txDetail, stReturn,
                   stCheck, checkCalls, fetchCalls, notFoundCalls,
                   lastFetch, upserts>>

\* ErrChainNotSupported or context.Canceled: return err (lines 85-90)
FetchTxReturnsError ==
    /\ stPc = "fetch"
    /\ fetchCalls' = fetchCalls + 1
    /\ \E e \in {"ErrChainNotSupported", "context.Canceled"} :
           /\ lastFetch' = FetchResult("nil", e)
           /\ stReturn' = e
    /\ txDetail' = lastFetch'.detail
    /\ stPc' = PcAfterAbort
    /\ UNCHANGED <<params, processedBefore, stAttempts, txStatus, stCheck,
                   checkCalls, notFoundCalls, slept, upserts>>

\* any other error: internal error, break out of the switch (lines 93-99);
\* the loop statement then increments attempts.
FetchTxInternalError ==
    /\ stPc = "fetch"
    /\ fetchCalls' = fetchCalls + 1
    /\ lastFetch' = FetchResult("nil", "ErrInternal")
    /\ txDetail' = lastFetch'.detail
    /\ txStatus' = StatusFor(lastFetch'.err)
    /\ stAttempts' = stAttempts + 1
    /\ stPc' = "loop"
    /\ UNCHANGED <<params, processedBefore, stReturn, stCheck, checkCalls,
                   notFoundCalls, slept, upserts>>

\* success: confirmed, break out of the switch (lines 102-104)
FetchTxOk ==
    /\ stPc = "fetch"
    /\ fetchCalls' = fetchCalls + 1
    /\ \E d \in TxDetails : lastFetch' = FetchResult(d, "nil")
    /\ txDetail' = lastFetch'.detail
    /\ txStatus' = StatusFor(lastFetch'.err)
    /\ stAttempts' = stAttempts + 1
    /\ stPc' = "loop"
    /\ UNCHANGED <<params, processedBefore, stReturn, stCheck, checkCalls,
                   notFoundCalls, slept, upserts>>

\* return repository.UpsertDocument(ctx, &p) (lines 109-115)
UpsertDocument ==
    /\ stPc = "upsert"
    /\ upserts' = Append(upserts, [VaaId |-> params.VaaId,
                                   ChainId |-> params.ChainId,
                                   TxDetail |-> txDetail,
                                   TxStatus |-> txStatus])
    /\ \E r \in {"nil", "ErrUpsert"} : stReturn' = r
    /\ stPc' = "done"
    /\ UNCHANGED <<params, processedBefore, stAttempts, txStatus, txDetail,
                   stCheck, checkCalls, fetchCalls, notFoundCalls,
                   lastFetch, slept>>

StNext ==
    \/ LoopHead
    \/ AlreadyProcessedFails
    \/ AlreadyProcessedAnswers
    \/ FetchTxNotFound
    \/ SleepAndContinue
    \/ FetchTxReturnsError
    \/ FetchTxInternalError
    \/ FetchTxOk
    \/ UpsertDocument

(***************************************************************************)
(* Part 8.  Processor.Process (parser/processor/processor.go).             *)
(***************************************************************************)
\* An error value is the chain of errors it wraps, outermost first;
\* errors.Is(err, target) looks for target along the chain.
ErrorsIs(err, target) == \E i \in DOMAIN err : err[i] = target

ParserErrors ==
    {<<"ErrNotFound">>, <<"ErrInternalError">>, <<"ErrCallEndpoint">>,
     <<"ErrUnproceesableEntity">>, <<"ErrBadRequest">>,
     <<"wrapped", "ErrCallEndpoint">>, <<"wrapped", "ErrNotFound">>}

\* line 58
RetryableInternalOnly(err) == ErrorsIs(err, "ErrInternalError")
Retryable(err) ==
    ErrorsIs(err, "ErrInternalError") \/ ErrorsIs(err, "ErrCallEndpoint")

VaaMessages ==
    [wellFormed : BOOLEAN, EmitterChain : {1, 2}, Sequence : {7, 8},
     EmitterAddress : {"00e1", "00e2"}, Timestamp : {1700}]

ParseResponses == [AppID : {"PORTAL_TOKEN_BRIDGE", "CCTP"}, Result : {"r"}]

\* A nil error is the empty chain; a nil *ParsedVaaUpdate is the empty
\* sequence and a non-nil one holds the value pointed to.
NilError == <<>>
NilUpdate == <<>>
NoReturn == [returned |-> FALSE, update |-> NilUpdate, err |-> NilError]
Return(update, err) == [returned |-> TRUE, update |-> update, err |-> err]

NotParsed == [called |-> FALSE, resp |-> [AppID |-> "", Result |-> ""], err |-> NilError]
ParseResult(resp, err) == [called |-> TRUE, resp |-> resp, err |-> err]

\* lines 83-92 (UpdatedAt, the wall-clock time, left out)
ParsedVaaUpdate(v, resp) ==
    [ID |-> <<v.EmitterChain, v.EmitterAddress, v.Sequence>>,
     EmitterChain |-> v.EmitterChain,
     EmitterAddr |-> v.EmitterAddress,
     Sequence |-> v.Sequence,
     AppID |-> resp.AppID,
     Result |-> resp.Result,
     Timestamp |-> v.Timestamp]

PpInit ==
    /\ ppPc = "start"
    /\ vaaBytes \in VaaMessages
    /\ parseOutcome = NotParsed
    /\ upsertOutcome = "none"
    /\ ppReturn = NoReturn
    /\ parsedUpserts = <<>>
    /\ alerts = <<>>
    /\ metricCalls = <<>>

\* lines 37-40: vaa.Unmarshal
Unmarshal ==
    /\ ppPc = "start"
    /\ IF vaaBytes.wellFormed
         THEN /\ ppPc' = "parse"
              /\ UNCHANGED ppReturn
         ELSE /\ ppPc' = "done"
              /\ ppReturn' = Return(NilUpdate, <<"ErrUnmarshal">>)
    /\ UNCHANGED <<vaaBytes, parseOutcome, upsertOutcome, parsedUpserts,
                   alerts, metricCalls>>

\* lines 47-77: p.parser.Parse fails
ParseFails ==
    /\ ppPc = "parse"
    /\ \E err \in ParserErrors :
          /\ parseOutcome' = ParseResult(NotParsed.resp, err)
          /\ metricCalls' = metricCalls \o
                <<"RequestCount",
                  IF ErrorsIs(err, "ErrNotFound") THEN "NotFoundCount"
                                                  ELSE "ErrorCount">>
          /\ IF Retryable(err)
               THEN /\ alerts' = Append(alerts, "AlertKeyVaaPayloadParserError")
                    /\ ppReturn' = Return(NilUpdate, err)
               ELSE /\ alerts' = alerts
                    /\ ppReturn' = Return(NilUpdate, NilError)
    /\ ppPc' = "done"
    /\ UNCHANGED <<vaaBytes, upsertOutcome, parsedUpserts>>

\* lines 47-48, 78-92: p.parser.Parse succeeds
ParseOk ==
    /\ ppPc = "parse"
    /\ \E resp \in ParseResponses : parseOutcome' = ParseResult(resp, NilError)
    /\ metricCalls' = metricCalls \o
          <<"RequestCount", "SuccessCount", "VaaParsed">>
    /\ ppPc' = "upsert"
    /\ UNCHANGED <<vaaBytes, upsertOutcome, ppReturn, parsedUpserts, alerts>>

\* lines 94-110: UpsertParsedVaa fails
UpsertParsedVaaFails ==
    /\ ppPc = "upsert"
    /\ parsedUpserts' =
          Append(parsedUpserts, ParsedVaaUpdate(vaaBytes, parseOutcome.resp))
    /\ upsertOutcome' = "failed"
    /\ alerts' = Append(alerts, "AlertKeyInsertParsedVaaError")
    /\ ppReturn' = Return(NilUpdate, <<"ErrUpsert">>)
    /\ ppPc' = "done"
    /\ UNCHANGED <<vaaBytes, parseOutcome, metricCalls>>

\* lines 94, 111-114: UpsertParsedVaa succeeds
UpsertParsedVaaOk ==
    /\ ppPc = "upsert"
    /\ parsedUpserts' =
          Append(parsedUpserts, ParsedVaaUpdate(vaaBytes, parseOutcome.resp))
    /\ upsertOutcome' = "ok"
    /\ metricCalls' = Append(metricCalls, "VaaParsedInserted")
    /\ ppReturn' = Return(<<ParsedVaaUpdate(vaaBytes, parseOutcome.resp)>>,
                          NilError)
    /\ ppPc' = "done"
    /\ UNCHANGED <<vaaBytes, parseOutcome, alerts>>

PpNext ==
    \/ Unmarshal
    \/ ParseFails
    \/ ParseOk
    \/ UpsertParsedVaaFails
    \/ UpsertParsedVaaOk

(***************************************************************************)
(* Part 9.  Repository.matchOperationByTxHash                              *)
(* (api/handlers/operations/repository.go).  Strings are sequences of      *)
(* characters.                                                             *)
(***************************************************************************)
\* Longest requested hash.
MaxHashLen == 3

HashChars == {"0", "x", "X", "a", "A"}

\* strings.ToLower / strings.ToUpper
ToLower(str) ==
    [i \in DOMAIN str |->
        CASE str[i] = "X" -> "x" [] str[i] = "A" -> "a" [] OTHER -> str[i]]
ToUpper(str) ==
    [i \in DOMAIN str |->
        CASE str[i] = "x" -> "X" [] str[i] = "a" -> "A" [] OTHER -> str[i]]

Prefix0x == <<"0", "x">>
HasPrefix(str, prefix) ==
    Len(str) >= Len(prefix) /\ SubSeq(str, 1, Len(prefix)) = prefix

\* utils.StartsWith0x(txHash) (lines 207, 215).  The helper is named for
\* the prefix "0x"; what it answers for "0X" is not fixed here, so both
\* answers are possible for such a string.
StartsWith0xAnswers(str) ==
    IF HasPrefix(str, Prefix0x) THEN {TRUE}
    ELSE IF HasPrefix(str, <<"0", "X">>) THEN {TRUE, FALSE}
    ELSE {FALSE}

Alternative(key, value) == [Key |-> key, eq |-> value]

\* lines 204-235, for one answer of utils.StartsWith0x
matchOperationByTxHash(hash, startsWith0x) ==
    LET txHashHex == IF ~startsWith0x
                       THEN Prefix0x \o ToLower(ToLower(hash))
                       ELSE ToLower(hash)
        qLower == ToLower(hash)
        qHigher == ToUpper(hash)
        qLowerWith0X == IF ~startsWith0x THEN Prefix0x \o ToLower(qLower)
                                         ELSE <<>>
        qHigherWith0X == IF ~startsWith0x THEN Prefix0x \o ToUpper(qHigher)
                                          ELSE <<>>
    IN  << Alternative("originTx.nativeTxHash", txHashHex),
           Alternative("originTx.nativeTxHash", hash),
           Alternative("originTx.nativeTxHash", qLower),
           Alternative("originTx.nativeTxHash", qHigher),
           Alternative("originTx.attribute.value.originTxHash", txHashHex),
           Alternative("originTx.attribute.value.originTxHash", hash),
           Alternative("originTx.attribute.value.originTxHash", qLower),
           Alternative("originTx.attribute.value.originTxHash", qHigher),
           Alternative("destinationTx.txHash", hash),
           Alternative("destinationTx.txHash", qLower),
           Alternative("destinationTx.txHash", qHigher),
           Alternative("destinationTx.txHash", qLowerWith0X),
           Alternative("destinationTx.txHash", qHigherWith0X) >>

\* FindAll calls matchOperationByTxHash only for a non-empty query.TxHash.
TxHashes == UNION {[1..n -> HashChars] : n \in 1..MaxHashLen}

MtInit ==
    /\ mtPc = "ready"
    /\ txHash \in TxHashes
    /\ matchStage = <<>>

MatchCall ==
    /\ mtPc = "ready"
    /\ \E answer \in StartsWith0xAnswers(txHash) :
           matchStage' = matchOperationByTxHash(txHash, answer)
    /\ mtPc' = "built"
    /\ UNCHANGED txHash

(***************************************************************************)
(* Specifications: each part runs with the other parts at rest.            *)
(***************************************************************************)
MbRest ==
    /\ pc = "rest" /\ chainHeight = 0 /\ blockNumber = NoBlock
    /\ isBlockFinalized = FALSE /\ sleepTime = INITIAL_SLEEP_TIME
    /\ attempts = 0 /\ heightFetches = 0 /\ sleeps = <<>> /\ predCalls = 0
    /\ answers = 0 /\ rpcErrors = 0 /\ firstTrueCall = 0 /\ finalizedHashes = {} /\ returned = NoBlock
    /\ thrownBlock = NoBlock

DivRest ==
    /\ divPc = "rest" /\ divSet = <<>> /\ divBatchSize = DEFAULT_BATCH_SIZE
    /\ divBatches = <<>>

PollRest ==
    /\ watermark = [j \in Jobs |-> 0]
    /\ height = [j \in Jobs |-> 0]
    /\ ticks = [j \in Jobs |-> <<>>]
    /\ lastDue = NoDue
    /\ lastFailed = [j \in Jobs |-> NoRange]
    /\ lastCommit = [j \in Jobs |-> NoRange]

AptRest ==
    /\ aptPc = "rest" /\ aptTx = [events |-> <<>>] /\ aptResult = [kind |-> "none"]

JrRest ==
    /\ jrPc = "rest" /\ dryRun = FALSE /\ jobDef = [handlers |-> <<>>]
    /\ jrSource = [kind |-> "none"] /\ jrHandlers = [kind |-> "none"]
    /\ delivered = {}

EvRest == evPc = "rest" /\ evTxs = <<>> /\ evResult = <<>>

StRest ==
    /\ stPc = "rest" /\ params = [Overwrite |-> FALSE]
    /\ processedBefore = FALSE /\ stAttempts = 0 /\ txStatus = ""
    /\ txDetail = "nil" /\ stReturn = "none" /\ stCheck = "none"
    /\ checkCalls = 0 /\ fetchCalls = 0 /\ notFoundCalls = 0 /\ slept = 0
    /\ lastFetch = [detail |-> "nil", err |-> "none"]
    /\ upserts = <<>>

PpRest ==
    /\ ppPc = "rest" /\ vaaBytes = [wellFormed |-> FALSE]
    /\ parseOutcome = [called |-> FALSE] /\ upsertOutcome = "none"
    /\ ppReturn = [returned |-> FALSE]
    /\ parsedUpserts = <<>> /\ alerts = <<>> /\ metricCalls = <<>>

MtRest == mtPc = "rest" /\ txHash = <<>> /\ matchStage = <<>>

InitMoonbeam == MbInit /\ DivRest /\ PollRest /\ AptRest /\ JrRest /\ EvRest /\ StRest /\ PpRest
    /\ MtRest
NextMoonbeam == MbNext /\ UNCHANGED <<divVars, pollVars, aptVars, jrVars, evVars, stVars, ppVars,
      mtVars>>
SpecMoonbeam == InitMoonbeam /\ [][NextMoonbeam]_vars

InitDivide == DivInit /\ MbRest /\ PollRest /\ AptRest /\ JrRest /\ EvRest /\ StRest /\ PpRest
    /\ MtRest
NextDivide == DivNext /\ UNCHANGED <<mbVars, pollVars, aptVars, jrVars, evVars, stVars, ppVars,
      mtVars>>
SpecDivide == InitDivide /\ [][NextDivide]_vars

InitPoller == PollInit /\ MbRest /\ DivRest /\ AptRest /\ JrRest /\ EvRest /\ StRest /\ PpRest
    /\ MtRest
NextPoller == PollNext /\ UNCHANGED <<mbVars, divVars, aptVars, jrVars, evVars, stVars, ppVars,
      mtVars>>
SpecPoller == InitPoller /\ [][NextPoller]_vars

InitAptos == AptInit /\ MbRest /\ DivRest /\ PollRest /\ JrRest /\ EvRest /\ StRest /\ PpRest
    /\ MtRest
NextAptos == AptNext /\ UNCHANGED <<mbVars, divVars, pollVars, jrVars, evVars, stVars, ppVars,
      mtVars>>
SpecAptos == InitAptos /\ [][NextAptos]_vars

InitJobs == JrInit /\ MbRest /\ DivRest /\ PollRest /\ AptRest /\ EvRest /\ StRest /\ PpRest
    /\ MtRest
NextJobs == JrNext /\ UNCHANGED <<mbVars, divVars, pollVars, aptVars, evVars, stVars, ppVars,
      mtVars>>
SpecJobs == InitJobs /\ [][NextJobs]_vars

InitEvmTx == EvInit /\ MbRest /\ DivRest /\ PollRest /\ AptRest /\ JrRest /\ StRest /\ PpRest
    /\ MtRest
NextEvmTx == HandleEvmCall /\ UNCHANGED <<mbVars, divVars, pollVars, aptVars, jrVars, stVars, ppVars,
      mtVars>>
SpecEvmTx == InitEvmTx /\ [][NextEvmTx]_vars

InitSourceTx ==
    /\ StInit /\ MbRest /\ DivRest /\ PollRest /\ AptRest /\ JrRest
    /\ EvRest /\ PpRest /\ MtRest
NextSourceTx ==
    /\ StNext
    /\ UNCHANGED <<mbVars, divVars, pollVars, aptVars, jrVars, evVars, ppVars,
                   mtVars>>
SpecSourceTx == InitSourceTx /\ [][NextSourceTx]_vars

InitParser ==
    /\ PpInit /\ MbRest /\ DivRest /\ PollRest /\ AptRest /\ JrRest
    /\ EvRest /\ StRest /\ MtRest
NextParser ==
    /\ PpNext
    /\ UNCHANGED <<mbVars, divVars, pollVars, aptVars, jrVars, evVars, stVars,
                   mtVars>>
SpecParser == InitParser /\ [][NextParser]_vars

InitMatch ==
    /\ MtInit /\ MbRest /\ DivRest /\ PollRest /\ AptRest /\ JrRest
    /\ EvRest /\ StRest /\ PpRest
NextMatch ==
    /\ MatchCall
    /\ UNCHANGED <<mbVars, divVars, pollVars, aptVars, jrVars, evVars, stVars,
                   ppVars>>
SpecMatch == InitMatch /\ [][NextMatch]_vars

(***************************************************************************)
(* Properties of getBlockHeight (checked under SpecMoonbeam).              *)
(***************************************************************************)
NonDecreasing(q) == \A i, k \in DOMAIN q : i <= k => q[i] <= q[k]

MbTerminated == pc \in {"returned", "threw"}

\* C1: in an execution without RPC errors in which the finality predicate
\* first answers true on its k-th call, k < MAX_ATTEMPTS (10), getBlockHeight
\* returns the block number fetched at the start (fetched exactly once),
\* after exactly k predicate calls, with non-decreasing sleep intervals.
C1_PollingTerminates ==
    (/\ MbTerminated
     /\ rpcErrors = 0
     /\ firstTrueCall >= 1
     /\ firstTrueCall < 10)
    => /\ pc = "returned"
       /\ returned = blockNumber
       /\ blockNumber # NoBlock
       /\ heightFetches = 1
       /\ predCalls = firstTrueCall
       /\ Len(sleeps) = firstTrueCall
       /\ NonDecreasing(sleeps)

C1_Witness ==
    /\ pc = "returned"
    /\ rpcErrors = 0
    /\ firstTrueCall = 3
    /\ returned = 1
    /\ chainHeight = 3

\* C2: when the finality predicate never answers true, getBlockHeight never
\* returns a height, never makes more than the first attempt plus
\* MAX_ATTEMPTS (10) retries, and ends by throwing an error that names the
\* block number whose finality stayed unresolved.
C2_PollingFails ==
    (firstTrueCall = 0)
    => /\ pc # "returned"
       /\ returned = NoBlock
       /\ attempts <= 10 + 1
       /\ (pc = "loop" /\ attempts = 10 + 1 => ENABLED ExitLoop)
       /\ (pc = "threw" => /\ attempts - 1 = 10
                           /\ thrownBlock = blockNumber
                           /\ blockNumber # NoBlock)

C2_Witness ==
    /\ pc = "threw"
    /\ firstTrueCall = 0
    /\ rpcErrors = 0
    /\ predCalls = 11
    /\ thrownBlock = 2

\* C3: whenever getBlockHeight returns a block number, a finality-predicate
\* call for the hash of that very block answered true during the invocation
\* (a missing result counts as not finalized); an invocation that ended
\* without such an answer ended by throwing.
C3_NoUnconfirmedHeight ==
    /\ (pc = "returned" => /\ returned # NoBlock
                           /\ HashOf(returned) \in finalizedHashes
                           /\ firstTrueCall >= 1)
    /\ (returned # NoBlock => pc = "returned")
    /\ (pc \in {"returned", "threw", "rejected"} /\ finalizedHashes = {}
          => pc \in {"threw", "rejected"} /\ returned = NoBlock)

C3_Witness ==
    /\ pc = "returned"
    /\ answers >= 3
    /\ rpcErrors >= 1
    /\ HashOf(returned) \in finalizedHashes

\* The step that enters the catch block (lines 48-52).
C4_ErrorStep ==
    (rpcErrors' # rpcErrors)
    => /\ rpcErrors' = rpcErrors + 1
       /\ attempts' = attempts + 1
       /\ answers' = answers
       /\ ~isBlockFinalized'
       /\ finalizedHashes' = finalizedHashes
       /\ pc' = "loop"
       /\ returned' = NoBlock
       /\ thrownBlock' = NoBlock

\* C4: an RPC failure during a finality attempt does not abort
\* getBlockHeight: the step that enters the catch block leaves the block
\* not finalized, counts exactly one attempt against the budget shared with
\* the answered attempts, and polling goes on with the next attempt while
\* the budget lasts.
C4_RpcFailureIsARetry ==
    /\ [](attempts = answers + rpcErrors /\ attempts <= 10 + 1)
    /\ [][C4_ErrorStep]_vars

C4_Witness ==
    /\ pc = "returned"
    /\ rpcErrors = 4
    /\ answers = 3
    /\ predCalls > answers
    /\ predCalls < attempts

\* C5: the sleep before the i-th finality check is 100 + 350*(i-1) ms,
\* whether the earlier attempts answered not-finalized or raised an error:
\* the interval grows by exactly 350 per attempt, never decreases, is never
\* reset, never capped and never multiplied.
C5_LinearBackoff ==
    /\ Len(sleeps) = attempts
    /\ sleepTime = 100 + 350 * attempts
    /\ \A i \in DOMAIN sleeps : sleeps[i] = 100 + 350 * (i - 1)

C5_Witness ==
    /\ Len(sleeps) = 11
    /\ sleeps[11] = 3600
    /\ rpcErrors >= 1
    /\ answers >= 1

(***************************************************************************)
(* Properties of divideIntoBatches (checked under SpecDivide).             *)
(***************************************************************************)
RECURSIVE Flatten(_)
Flatten(bs) == IF bs = <<>> THEN <<>> ELSE Head(bs) \o Flatten(Tail(bs))

CeilDiv(n, b) == (n + b - 1) \div b

Sizes(bs) == [i \in DOMAIN bs |-> Len(bs[i])]

\* C10: divideIntoBatches on n distinct items with batch size b >= 1
\* returns exactly ceil(n/b) batches in iteration order, each of exactly b
\* items except possibly the last, which has between 1 and b items;
\* 25 items with b = 10 give sizes 10, 10, 5; the empty set gives no
\* batches; no returned batch is empty.
C10_BatchShape ==
    /\ (divPc = "done") =>
          /\ Len(divBatches) = CeilDiv(Len(divSet), divBatchSize)
          /\ Flatten(divBatches) = divSet
          /\ \A i \in DOMAIN divBatches :
                /\ Len(divBatches[i]) >= 1
                /\ Len(divBatches[i]) <= divBatchSize
                /\ (i < Len(divBatches) => Len(divBatches[i]) = divBatchSize)
          /\ (divSet = <<>> => divBatches = <<>>)
    /\ Sizes(divideIntoBatches([i \in 1..25 |-> i], DEFAULT_BATCH_SIZE))
          = <<10, 10, 5>>
    /\ Sizes(divideIntoBatches([i \in 1..20 |-> i], 10)) = <<10, 10>>

C10_Witness ==
    /\ divPc = "done"
    /\ Len(divSet) = 4
    /\ divBatchSize = 3
    /\ Sizes(divBatches) = <<3, 1>>

(***************************************************************************)
(* Properties of the Poller (checked under SpecPoller).                    *)
(***************************************************************************)
\* The in-flight tick of job j that is about to write the watermark.
Committing(j, i) == ticks[j][i].state = "COMMITTING"

\* A step in which a tick of job j ends in FAILED.
TickFails(j) ==
    /\ Len(ticks'[j]) < Len(ticks[j])
    /\ \E i \in DOMAIN ticks[j] : ~Committing(j, i)

C6_WriteOnlyAfterSuccess ==
    \A j \in Jobs :
        /\ (watermark'[j] # watermark[j]) =>
              \E i \in DOMAIN ticks[j] :
                  /\ Committing(j, i)
                  /\ ticks[j][i].handler = numHandlers[j]
                  /\ ticks[j][i].batch > NumBatches(ticks[j][i].events)
                  /\ watermark'[j] = ticks[j][i].to
        /\ TickFails(j) =>
              /\ watermark'[j] = watermark[j]
              /\ lastFailed'[j] # NoRange
              /\ lastFailed'[j].from = watermark[j] + 1
        /\ (lastFailed[j] # NoRange /\ Len(ticks'[j]) > Len(ticks[j])) =>
              /\ ticks'[j][Len(ticks'[j])].from = lastFailed[j].from
              /\ ticks'[j][Len(ticks'[j])].to >= lastFailed[j].to

C6_FailedRangePending ==
    \A j \in Jobs :
        lastFailed[j] # NoRange =>
            /\ ticks[j] = <<>>
            /\ lastFailed[j].from = watermark[j] + 1
            /\ lastFailed[j].from <= lastFailed[j].to
            /\ lastFailed[j].to <= height[j]

\* C6: for every job and tick, the watermark is written only after the
\* range was mapped and every configured handler returned success for it;
\* a tick in which the fetch, a handler or a delivery batch fails leaves the
\* watermark unchanged, and the following tick starts from the same position
\* and retries the entire range.
C6_CommitAfterAllHandlers ==
    /\ []C6_FailedRangePending
    /\ [][C6_WriteOnlyAfterSuccess]_vars

C6_Witness ==
    /\ watermark["j1"] = 0
    /\ lastDue = "retried"
    /\ lastFailed["j2"] = [from |-> 1, to |-> 1]
    /\ Len(ticks["j1"]) = 1
    /\ ticks["j1"][1].state = "DELIVERING"
    /\ ticks["j1"][1].from = 1
    /\ ticks["j1"][1].to = 3
    /\ ticks["j1"][1].events = 3
    /\ ticks["j1"][1].handler = 2
    /\ ticks["j1"][1].batch = 2

C7_RangeStep ==
    \A j \in Jobs :
        /\ (Len(ticks'[j]) > Len(ticks[j])) =>
              LET t == ticks'[j][Len(ticks'[j])]
                  hi == watermark[j] + batchSize[j]
              IN  /\ t.state = "FETCHING"
                  /\ t.from = watermark[j] + 1
                  /\ t.to = (IF hi <= height[j] THEN hi ELSE height[j])
                  /\ t.from <= t.to
                  /\ t.to <= height[j]
        /\ (ticks[j] = <<>> /\ watermark[j] + 1 > height[j]) =>
              /\ ticks'[j] = <<>>
              /\ watermark'[j] = watermark[j]
              /\ lastFailed'[j] = lastFailed[j]
              /\ lastCommit'[j] = lastCommit[j]

\* C7: each tick fetches [from, to] with from = watermark.position + 1 and
\* to = min(from + batchSize - 1, current height), so the range is bounded
\* by the available height and not only by the batch size (batch size 100,
\* watermark 1000, height 1050 gives [1001, 1050]); when from > to nothing
\* is fetched and no state changes.
C7_RangeBoundedByHeight ==
    /\ [](/\ RangeFrom(1000) = 1001
          /\ RangeTo(RangeFrom(1000), 100, 1050) = 1050
          /\ RangeTo(RangeFrom(1000), 100, 2000) = 1100)
    /\ [][C7_RangeStep]_vars

C7_Witness ==
    /\ Len(ticks["j1"]) = 1
    /\ ticks["j1"][1].from = 2
    /\ ticks["j1"][1].to = 3
    /\ height["j1"] = 3
    /\ batchSize["j1"] = 3
    /\ lastDue = "nodata"

C8_WatermarkStep ==
    \A j \in Jobs :
        /\ watermark'[j] >= watermark[j]
        /\ ((\E i \in DOMAIN ticks[j] : Committing(j, i))
               /\ Len(ticks'[j]) < Len(ticks[j]))
              => /\ watermark'[j] > watermark[j]
                 /\ lastCommit'[j] # lastCommit[j]
        /\ (lastCommit'[j] # lastCommit[j]) =>
              /\ lastCommit'[j].from <= lastCommit'[j].to
              /\ lastCommit'[j].from = watermark[j] + 1
              /\ lastCommit'[j].to = watermark'[j]
              /\ (lastCommit[j] # NoRange =>
                     lastCommit'[j].from = lastCommit[j].to + 1)

\* C8: per job, across any sequence of ticks, the watermark never
\* decreases, every commit strictly advances it, and each committed range
\* starts exactly one position after the end of the previously committed
\* range (increasing order, no gap, no overlap).
C8_MonotonicContiguous ==
    /\ [](\A j \in Jobs : lastCommit[j] # NoRange => lastCommit[j].to = watermark[j])
    /\ [][C8_WatermarkStep]_vars

C8_Witness ==
    /\ lastCommit["j1"] = [from |-> 2, to |-> 3]
    /\ watermark["j1"] = 3
    /\ lastCommit["j2"] = [from |-> 3, to |-> 3]
    /\ lastDue = "skipped"

C9_SkipStep ==
    \A j \in Jobs :
        (Len(ticks[j]) >= 1 /\ Len(ticks'[j]) >= 1) => Len(ticks'[j]) = Len(ticks[j])

\* C9: at no time are two ticks of the same job in flight; a tick that is
\* due while the previous one still runs is skipped, never started in
\* parallel, while ticks of different jobs interleave freely.
C9_SingleFlight ==
    /\ [](\A j \in Jobs : Len(ticks[j]) <= 1)
    /\ [][C9_SkipStep]_vars

C9_Witness ==
    /\ lastDue = "skipped"
    /\ Len(ticks["j1"]) = 1
    /\ Len(ticks["j2"]) = 1
    /\ ticks["j1"][1].state = "DELIVERING"
    /\ ticks["j2"][1].state = "MAPPING"

(***************************************************************************)
(* Further properties of divideIntoBatches (checked under SpecDivide).     *)
(***************************************************************************)
Members(q) == {q[i] : i \in DOMAIN q}

\* C11: the batches returned by divideIntoBatches partition the input set:
\* they are pairwise disjoint and their union is the input, so no filter
\* item is queried in two batches and none is dropped.
C11_BatchesPartition ==
    (divPc = "done") =>
        /\ \A i, k \in DOMAIN divBatches :
              i # k => Members(divBatches[i]) \cap Members(divBatches[k]) = {}
        /\ UNION {Members(divBatches[i]) : i \in DOMAIN divBatches} = Members(divSet)
        /\ \A i \in DOMAIN divBatches : IsSet(divBatches[i])

C11_Witness ==
    /\ divPc = "done"
    /\ divSet = <<3, 1, 4, 2>>
    /\ divBatches = <<<<3, 1>>, <<4, 2>>>>

(***************************************************************************)
(* Properties of aptosLogMessagePublishedMapper (checked under SpecAptos). *)
(***************************************************************************)
\* The transaction carries an event whose type contains
\* "::state::WormholeMessage".
HasWormholeEvent(tx) ==
    \E i \in DOMAIN tx.events :
        \E k \in 2..(Len(tx.events[i].type) - 1) :
            /\ tx.events[i].type[k] = "state"
            /\ tx.events[i].type[k + 1] = "WormholeMessage"

\* The first such event.
FirstWormholeEvent(tx) ==
    tx.events[CHOOSE i \in DOMAIN tx.events :
                 /\ HasWormholeEvent([events |-> <<tx.events[i]>>])
                 /\ \A k \in 1..(i - 1) :
                       ~HasWormholeEvent([events |-> <<tx.events[k]>>])]

\* C12: when an Aptos transaction has no event whose type contains
\* '::state::WormholeMessage', aptosLogMessagePublishedMapper returns
\* nothing (undefined) and does not fail or throw.
C12_NoMatchReturnsNothing ==
    (aptPc = "done" /\ ~HasWormholeEvent(aptTx)) => aptResult.kind = "undefined"

\* C17: for a matching Aptos transaction whose sender has at most 64
\* characters, attributes.sender is the sender left-padded with '0' to
\* exactly 64 characters (it ends with the input and has only '0' before
\* it), and the event has name 'log-message-published', chainId 22,
\* txHash = transaction.hash and blockHeight = transaction.blockHeight.
C17_SenderZeroPadded ==
    (aptPc = "done" /\ HasWormholeEvent(aptTx)) =>
        LET in == FirstWormholeEvent(aptTx).data.sender
            out == aptResult.attributes.sender
        IN  /\ aptResult.kind = "event"
            /\ aptResult.name = "log-message-published"
            /\ aptResult.chainId = 22
            /\ aptResult.txHash = aptTx.hash
            /\ aptResult.blockHeight = aptTx.blockHeight
            /\ (Len(in) <= 64) =>
                  /\ Len(out) = 64
                  /\ SubSeq(out, 64 - Len(in) + 1, 64) = in
                  /\ \A i \in 1..(64 - Len(in)) : out[i] = "0"

C17_Witness ==
    /\ aptPc = "done"
    /\ Len(aptTx.events) = 2
    /\ ~HasWormholeEvent([events |-> <<aptTx.events[1]>>])
    /\ aptTx.events[2].data.sender = <<"a", "0">>
    /\ aptResult.kind = "event"
    /\ aptResult.attributes.sender = Repeat("0", 62) \o <<"a", "0">>
    /\ aptResult.attributes.sequence = 42

(***************************************************************************)
(* Claims about StaticJobRepository (SpecJobs).                            *)
(***************************************************************************)
UnknownEntry(e) ==
    \/ e.action \notin HandlerNames
    \/ e.mapper \notin MapperNames
    \/ e.target \notin TargetNames

\* C13: an unknown name in a job definition is rejected at wiring time:
\* getSource succeeds only for a known source action, and getHandlers
\* returns handlers only when no declared handler names an unknown handler
\* action, mapper or target, for every handler kind and with dry-run on or
\* off.
C13_UnknownNameRejected ==
    /\ jrSource.kind = "source" => jobDef.source.action \in SourceNames
    /\ jrHandlers.kind = "handlers" =>
           \A i \in DOMAIN jobDef.handlers : ~UnknownEntry(jobDef.handlers[i])

ConfiguredTarget(i) == jobDef.handlers[i].target

\* C14: with dryRun = TRUE every built handler, of every kind, is bound to
\* and delivers to the "dummy" target and never to the configured one; with
\* dryRun = FALSE it is bound to and delivers to the target named in the job
\* definition; every handle call of a handler uses the target chosen at
\* construction.
C14_DryRunReplacesTarget ==
    /\ jrHandlers.kind = "handlers" =>
           \A i \in DOMAIN jrHandlers.handlers :
               jrHandlers.handlers[i].target =
                   IF dryRun THEN "dummy" ELSE ConfiguredTarget(i)
    /\ \A d \in delivered :
           /\ d.target = jrHandlers.handlers[d.handler].target
           /\ d.target = IF dryRun THEN "dummy" ELSE ConfiguredTarget(d.handler)

C14_Witness ==
    /\ dryRun
    /\ \E d1, d2 \in delivered :
           /\ jobDef.handlers[d1.handler].action \in EvmHandlerNames
           /\ jobDef.handlers[d2.handler].action \in OtherHandlerNames
           /\ ConfiguredTarget(d1.handler) = "sns"
           /\ ConfiguredTarget(d2.handler) = "sns"
           /\ d1.target = "dummy" /\ d2.target = "dummy"

JobKeys == {"commitment", "chainId", "chain", "id"}

\* C15: getHandlers returns exactly one handler per entry of jobDef.handlers,
\* in declared order, each built from that entry's action, mapper and target,
\* and from that entry's config overlaid with the job's commitment, chainId,
\* chain and id.
C15_OneHandlerPerEntryInOrder ==
    jrHandlers.kind = "handlers" =>
        /\ Len(jrHandlers.handlers) = Len(jobDef.handlers)
        /\ \A i \in DOMAIN jobDef.handlers :
               LET h == jrHandlers.handlers[i]
                   e == jobDef.handlers[i]
               IN  /\ h.action = e.action
                   /\ h.mapper = e.mapper
                   /\ h.passedTarget = e.target
                   /\ DOMAIN h.config = DOMAIN e.config \cup JobKeys
                   /\ \A k \in DOMAIN e.config \ JobKeys :
                          h.config[k] = e.config[k]
                   /\ h.config.commitment = jobDef.source.config.commitment
                   /\ h.config.chainId = jobDef.chainId
                   /\ h.config.chain = jobDef.chain
                   /\ h.config.id = jobDef.id

C15_Witness ==
    /\ jrHandlers.kind = "handlers"
    /\ Len(jrHandlers.handlers) = 2
    /\ jobDef.handlers[1].action # jobDef.handlers[2].action
    /\ jobDef.handlers[1].mapper # jobDef.handlers[2].mapper
    /\ "chain" \in DOMAIN jobDef.handlers[1].config
    /\ jrHandlers.handlers[1].config.chain = "ethereum"

(***************************************************************************)
(* Claims about HandleEvmTransactions (SpecEvmTx).                         *)
(***************************************************************************)
\* Number of positions of seq that satisfy Test.
RECURSIVE CountIf(_, _, _)
CountIf(seq, Test(_), i) ==
    IF i > Len(seq) THEN 0
    ELSE (IF Test(seq[i]) THEN 1 ELSE 0) + CountIf(seq, Test, i + 1)

IsRedeem(tx) ==
    /\ tx.to = FilterAddress
    /\ tx.input[1] = "0xc6878519"

IsRedeemEventOf(tx, e) ==
    /\ e.name = "evm-transaction-found"
    /\ e.chainId = tx.chainId
    /\ e.txHash = tx.hash
    /\ e.blockHeight = tx.blockNumber
    /\ e.attributes.blockNumber = tx.blockNumber
    /\ e.attributes.from = tx.from
    /\ e.attributes.to = tx.to
    /\ e.attributes.methodsByAddress = "MethodCompleteTransfer"
    /\ e.attributes.name = "transfer-redeemed"

\* C16: every raw EVM transaction sent to a filtered address with the known
\* selector 0xc6878519 yields exactly one event from handle, and that event
\* copies chainId, hash, blockNumber, from and to, is named
\* "evm-transaction-found", and carries methodsByAddress =
\* "MethodCompleteTransfer" and attributes.name = "transfer-redeemed".
C16_KnownSelectorYieldsOneEvent ==
    evPc = "done" =>
        \A i \in DOMAIN evTxs :
            IsRedeem(evTxs[i]) =>
                LET tx == evTxs[i]
                    Same(t) == t = tx
                    Mine(e) == IsRedeemEventOf(tx, e)
                    Touches(e) == e.txHash = tx.hash /\ e.attributes.to = tx.to
                                  /\ e.attributes.name = "transfer-redeemed"
                                  /\ e.blockHeight = tx.blockNumber
                                  /\ e.chainId = tx.chainId
                IN  /\ CountIf(evResult, Mine, 1) = CountIf(evTxs, Same, 1)
                    /\ CountIf(evResult, Touches, 1) = CountIf(evResult, Mine, 1)

C16_Witness ==
    /\ evPc = "done"
    /\ Len(evTxs) = 2
    /\ IsRedeem(evTxs[1])
    /\ ~IsRedeem(evTxs[2])
    /\ evTxs[1].blockNumber = 18793148 /\ evTxs[1].chainId = 1
    /\ \E k \in DOMAIN evResult : IsRedeemEventOf(evTxs[1], evResult[k])

(***************************************************************************)
(* Claims about ProcessSourceTx (SpecSourceTx).                            *)
(***************************************************************************)
FetchAborted == stReturn \in {"ErrChainNotSupported", "context.Canceled"}

\* C19: with Overwrite false, a VAA reported as processed makes
\* ProcessSourceTx return ErrAlreadyProcessed with no FetchTx call and no
\* UpsertDocument call; an error of the check itself is returned, again with
\* no fetch and no write; with Overwrite true AlreadyProcessed is never
\* called, and the transaction is fetched, and upserted unless the fetch
\* aborts the call, even when it was processed before.
C19_AlreadyProcessedGuard ==
    /\ stCheck = "processed" =>
           /\ stPc = "done" /\ stReturn = "ErrAlreadyProcessed"
           /\ fetchCalls = 0 /\ upserts = <<>>
    /\ stCheck = "error" =>
           /\ stPc = "done" /\ stReturn = "ErrAlreadyProcessedCheck"
           /\ fetchCalls = 0 /\ upserts = <<>>
    /\ (stPc = "done" /\ ~params.Overwrite /\ processedBefore) =>
           /\ stReturn \in {"ErrAlreadyProcessed", "ErrAlreadyProcessedCheck"}
           /\ fetchCalls = 0 /\ upserts = <<>>
    /\ (stPc # "rest" /\ params.Overwrite) =>
           /\ checkCalls = 0
           /\ stPc = "done" =>
                  /\ fetchCalls >= 1
                  /\ FetchAborted \/ Len(upserts) = 1

C19_Witness ==
    /\ stPc = "done" /\ ~params.Overwrite /\ processedBefore
    /\ stReturn = "ErrAlreadyProcessed" /\ checkCalls = 1

\* C20: a fetch answered ErrTransactionNotFound is followed by a wait of
\* retryDelay and another fetch; the call gives up only after maxAttempts
\* fetches, and then stores the document with the internal-error status.
C20_NotFoundIsRetried ==
    (stPc \in {"upsert", "done"} /\ notFoundCalls >= 1) =>
        /\ slept >= retryDelay
        /\ fetchCalls >= 2
        /\ (fetchCalls = notFoundCalls) => fetchCalls = maxAttempts
        /\ (fetchCalls = notFoundCalls /\ stPc = "done") =>
               /\ Len(upserts) = 1
               /\ upserts[1].TxStatus = "internalError"

\* C21: when chains.FetchTx fails with context.Canceled or with
\* ErrChainNotSupported, ProcessSourceTx returns that error and
\* UpsertDocument is not called in that invocation.
C21_AbortedFetchWritesNothing ==
    lastFetch.err \in {"ErrChainNotSupported", "context.Canceled"} =>
        /\ stPc = "done"
        /\ stReturn = lastFetch.err
        /\ upserts = <<>>

C21_Witness ==
    /\ stPc = "done"
    /\ processedBefore
    /\ params.Overwrite
    /\ fetchCalls = 1
    /\ lastFetch.err = "context.Canceled"
    /\ stReturn = "context.Canceled"

\* C25: UpsertDocument is called at most once per invocation; the stored
\* TxStatus is confirmed exactly when the last chains.FetchTx call returned
\* without error, TxDetail is that call's result, and in every other case
\* that reaches the upsert the stored status is the internal error.
C25_StoredStatusFollowsLastFetch ==
    /\ Len(upserts) <= 1
    /\ \A i \in DOMAIN upserts :
           /\ fetchCalls >= 1
           /\ upserts[i].TxStatus = "confirmed" <=> lastFetch.err = "nil"
           /\ upserts[i].TxDetail = lastFetch.detail
           /\ lastFetch.err # "nil" => upserts[i].TxStatus = "internalError"

C25_Witness ==
    /\ stPc = "done"
    /\ Len(upserts) = 1
    /\ lastFetch = [detail |-> "detailB", err |-> "nil"]
    /\ upserts[1].TxStatus = "confirmed"
    /\ upserts[1].TxDetail = "detailB"

(***************************************************************************)
(* Further claim about getBlockHeight (SpecMoonbeam).                      *)
(***************************************************************************)
\* C23: getBlockHeight returns the block number whenever a finality
\* predicate call it made answered true, the last call of the attempt
\* budget included, and throws 'never ended' only when no predicate call
\* answered true.
C23_TrueAnswerIsReturned ==
    /\ pc = "threw" => firstTrueCall = 0
    /\ (pc \in {"threw", "returned"} /\ firstTrueCall > 0) =>
           /\ pc = "returned"
           /\ returned = blockNumber

(***************************************************************************)
(* Claims about Processor.Process (SpecParser).                            *)
(***************************************************************************)
UnmarshalFailed == ppPc = "done" /\ ~vaaBytes.wellFormed
ParserFailed == parseOutcome.called /\ parseOutcome.err # <<>>
RetryableParserError ==
    /\ ParserFailed
    /\ \E i \in DOMAIN parseOutcome.err :
           parseOutcome.err[i] \in {"ErrInternalError", "ErrCallEndpoint"}
UpsertFailed == upsertOutcome = "failed"
UpsertSucceeded == upsertOutcome = "ok"

\* C22: Process returns a non-nil error exactly when unmarshalling fails,
\* the parser returns ErrInternalError or ErrCallEndpoint, or
\* UpsertParsedVaa fails; any other parser error gives (nil, nil) with no
\* upsert and no alert; a non-nil ParsedVaaUpdate is returned exactly when
\* UpsertParsedVaa was called and succeeded; an alert is sent exactly on the
\* retryable parser errors and on upsert failure.
C22_ProcessOutcomes ==
    /\ ppPc = "done" =>
           /\ ppReturn.returned
           /\ ppReturn.err # <<>> <=>
                  (UnmarshalFailed \/ RetryableParserError \/ UpsertFailed)
           /\ (ParserFailed /\ ~RetryableParserError) =>
                  /\ ppReturn.update = <<>> /\ ppReturn.err = <<>>
                  /\ parsedUpserts = <<>>
                  /\ alerts = <<>>
           /\ ppReturn.update # <<>> <=>
                  (Len(parsedUpserts) = 1 /\ UpsertSucceeded)
           /\ ppReturn.update # <<>> => ppReturn.update = parsedUpserts
           /\ alerts # <<>> <=> (RetryableParserError \/ UpsertFailed)
           /\ Len(alerts) <= 1
    /\ (ppPc \in {"start", "parse", "upsert"}) =>
           alerts = <<>> /\ parsedUpserts = <<>>

C22_Witness ==
    /\ ppPc = "done"
    /\ parseOutcome.err = <<"wrapped", "ErrCallEndpoint">>
    /\ ppReturn.err = <<"wrapped", "ErrCallEndpoint">>
    /\ ppReturn.update = <<>>
    /\ alerts = <<"AlertKeyVaaPayloadParserError">>
    /\ parsedUpserts = <<>>

(***************************************************************************)
(* Claim about matchOperationByTxHash (SpecMatch).                         *)
(***************************************************************************)
\* A hash without its optional 0x prefix, in lower case.
Canonical(str) ==
    LET low == [i \in DOMAIN str |->
                   IF str[i] = "X" THEN "x"
                   ELSE IF str[i] = "A" THEN "a" ELSE str[i]]
    IN  IF Len(low) >= 2 /\ low[1] = "0" /\ low[2] = "x"
          THEN SubSeq(low, 3, Len(low))
          ELSE low

\* C24: for every non-empty txHash, with or without a leading 0x, every
\* equality alternative of the $match stage compares a hash field against
\* the requested hash up to letter case and an optional 0x prefix, and none
\* compares against the empty string.
C24_AlternativesMatchRequest ==
    mtPc = "built" =>
        \A i \in DOMAIN matchStage :
            /\ matchStage[i].eq # <<>>
            /\ Canonical(matchStage[i].eq) = Canonical(txHash)

====
